---- MODULE Spec2Model ----
(***************************************************************************)
(* A model of scripts/neopay_report.py: the NeoPay reporting script, one   *)
(* action per section of the script, run top to bottom.                    *)
(*                                                                         *)
(* Text values are sequences of one-character strings, so that stripping   *)
(* and lexicographic order are computed and not assumed.  A timestamp is   *)
(* <<year, month, day, hour>>.  Amounts are whole currency units.          *)
(***************************************************************************)
EXTENDS Integers, Sequences, FiniteSets

VARIABLES
    pc,               \* the section of the script that runs next
    csvExists,        \* CSV_PATH.exists()
    csv,              \* the rows of data/transactions.csv, in file order
    outDirCreated,    \* OUT_DIR.mkdir(...) has run
    df,               \* the working table
    overall,          \* the overall KPI row
    monthly,          \* the month-wise summary
    city_perf,        \* the city summary
    pivots,           \* the two pivot tables
    rfm,              \* the RFM table, one row per account
    x,                \* the cohort working table
    cohort_retention, \* the retention matrix, in thousandths
    outputs,          \* the files written so far
    error             \* the exception that ended the run, or "none"

vars == <<pc, csvExists, csv, outDirCreated, df, overall, monthly, city_perf,
          pivots, rfm, x, cohort_retention, outputs, error>>

(* The longest input file the specifications enumerate. *)
MaxRows == 3

----------------------------------------------------------------------------
(* Text *)

(* The characters the inputs use, in code-point order. *)
Alphabet ==
    <<"\t", " ", "-", "0", "1", "2", "3", "4", "5", "6", "7", "8", "9",
      "B", "C", "D", "H", "I", "K", "M", "N", "P", "U", "W",
      "a", "b", "d", "e", "g", "h", "i", "k", "l", "m", "n", "o", "r", "t",
      "u", "v", "w", "x", "y">>

Ord(c) == CHOOSE i \in 1..Len(Alphabet) : Alphabet[i] = c

Whitespace == {"\t", " "}

(* A missing value of a string column (pandas <NA>): no character sequence. *)
NA == <<"<NA>">>

MinInt(a, b) == IF a <= b THEN a ELSE b

(* s < t for Python strings: lexicographic by code point. *)
StrLess(s, t) ==
    \E k \in 1..(MinInt(Len(s), Len(t)) + 1) :
        /\ \A i \in 1..(k - 1) : s[i] = t[i]
        /\ \/ k > Len(s) /\ k <= Len(t)
           \/ k <= Len(s) /\ k <= Len(t) /\ Ord(s[k]) < Ord(t[k])

(* Series.str.strip(): leading and trailing whitespace removed; a missing *)
(* value stays missing.                                                    *)
Strip(s) ==
    IF s = NA THEN NA
    ELSE LET keep == {i \in 1..Len(s) : s[i] \notin Whitespace}
         IN  IF keep = {} THEN <<>>
             ELSE LET lo == CHOOSE i \in keep : \A j \in keep : i <= j
                      hi == CHOOSE i \in keep : \A j \in keep : i >= j
                  IN  SubSeq(s, lo, hi)

Mumbai    == <<"M", "u", "m", "b", "a", "i">>
Pune      == <<"P", "u", "n", "e">>
Delhi     == <<"D", "e", "l", "h", "i">>
Bengaluru == <<"B", "e", "n", "g", "a", "l", "u", "r", "u">>
Hyderabad == <<"H", "y", "d", "e", "r", "a", "b", "a", "d">>
Chennai   == <<"C", "h", "e", "n", "n", "a", "i">>
Kolkata   == <<"K", "o", "l", "k", "a", "t", "a">>

(* city_to_region, as the set of its (key, value) pairs. *)
city_to_region ==
    { <<Mumbai, "West">>, <<Pune, "West">>, <<Delhi, "North">>,
      <<Bengaluru, "South">>, <<Hyderabad, "South">>, <<Chennai, "South">>,
      <<Kolkata, "East">> }

(* Series.map(dict): the value of the key equal to the cell, NaN without one *)
(* (a missing cell has none).                                                *)
MapCity(c) ==
    IF \E p \in city_to_region : p[1] = c
    THEN (CHOOSE p \in city_to_region : p[1] = c)[2]
    ELSE "NaN"

FillNa(v, d) == IF v = "NaN" THEN d ELSE v

(* The lookup without its fillna. *)
RegionNoFill(c) == MapCity(c)

(* df["city"].map(city_to_region).fillna("Unknown") *)
Region(c) == FillNa(MapCity(c), "Unknown")

----------------------------------------------------------------------------
(* Timestamps *)

IsLeap(y) == (y % 4 = 0 /\ y % 100 # 0) \/ y % 400 = 0

DaysInMonth(y, m) ==
    IF m = 2 THEN (IF IsLeap(y) THEN 29 ELSE 28)
    ELSE IF m \in {4, 6, 9, 11} THEN 30 ELSE 31

RECURSIVE DaysBeforeMonth(_, _)
DaysBeforeMonth(y, m) ==
    IF m = 1 THEN 0 ELSE DaysBeforeMonth(y, m - 1) + DaysInMonth(y, m - 1)

(* The proleptic Gregorian ordinal of a date (0001-01-01 is day 1). *)
DayNumber(t) ==
    LET y == t[1] - 1
    IN  365 * y + (y \div 4) - (y \div 100) + (y \div 400)
        + DaysBeforeMonth(t[1], t[2]) + t[3]

(* The order of timestamps. *)
TimeKey(t) == DayNumber(t) * 24 + t[4]

(* DatetimeIndex.hour *)
Hour(t) == t[4]

(* DatetimeIndex.weekday: Monday is 0. *)
Weekday(t) == (DayNumber(t) - 1) % 7

(* Timestamp.normalize(): the same date at midnight. *)
Normalize(t) == <<t[1], t[2], t[3], 0>>

Digit(n) == Alphabet[4 + n]

(* to_period("M").astype(str): the text "YYYY-MM". *)
MonthStr(t) ==
    <<Digit(t[1] \div 1000), Digit((t[1] \div 100) % 10),
      Digit((t[1] \div 10) % 10), Digit(t[1] % 10), "-",
      Digit(t[2] \div 10), Digit(t[2] % 10)>>

DigitValue(c) == Ord(c) - 4

(* pd.Period("YYYY-MM").year and .month *)
PeriodYear(s) ==
    1000 * DigitValue(s[1]) + 100 * DigitValue(s[2]) + 10 * DigitValue(s[3])
    + DigitValue(s[4])

PeriodMonth(s) == 10 * DigitValue(s[6]) + DigitValue(s[7])

----------------------------------------------------------------------------
(* Sorting *)

(* The function f on 1..n as the sequence <<f[1], ..., f[n]>>, each value *)
(* computed once.                                                          *)
AsSeq(f) ==
    LET n == Cardinality(DOMAIN f)
        F[i \in 0..n] == IF i = 0 THEN <<>> ELSE Append(F[i - 1], f[i])
    IN  F[n]

(* sort_values(...) with the default kind="quicksort", which is not a stable *)
(* sort: every arrangement of s in nondecreasing order of its keys ks is an  *)
(* outcome.                                                                  *)
SortOutcomes(s, ks) ==
    LET n  == Len(s)
        ok == {f \in [1..n -> 1..n] :
                 /\ \A i \in 1..(n - 1) : ks[f[i]] <= ks[f[i + 1]]
                 /\ \A i, j \in 1..n : i < j => f[i] # f[j]}
    IN  {AsSeq([i \in 1..n |-> s[f[i]]]) : f \in ok}

(* The texts of S in increasing order (the key order of a group-by). *)
SortedTexts(S) ==
    AsSeq([i \in 1..Cardinality(S) |->
              CHOOSE e \in S : Cardinality({o \in S : StrLess(o, e)}) = i - 1])

(* The integers of S in increasing order (the key order of a group-by). *)
SortedInts(S) ==
    AsSeq([i \in 1..Cardinality(S) |->
              CHOOSE e \in S : Cardinality({o \in S : o < e}) = i - 1])

(* The sum of the amounts of the rows s. *)
SumAmount(s) ==
    LET F[i \in 0..Len(s)] == IF i = 0 THEN 0 ELSE F[i - 1] + s[i].amount
    IN  F[Len(s)]

(* The number of rows of s flagged is_high, and flagged is_night. *)
CountHigh(s) == Len(SelectSeq(s, LAMBDA r : r.is_high))

CountNight(s) == Len(SelectSeq(s, LAMBDA r : r.is_night))

----------------------------------------------------------------------------
(* Cleaning *)

(* The columns drop_duplicates compares. *)
DupKey(r) ==
    <<r.account_id, r.txn_time, r.amount, r.txn_type, r.description, r.city>>

(* A deduplication that deletes from the list it iterates over: the row     *)
(* after a deleted one is skipped unexamined.                               *)
DropDuplicatesSkipping(s) ==
    LET F[i \in 0..Len(s)] ==
            IF i = 0 THEN [out |-> <<>>, skip |-> FALSE]
            ELSE IF F[i - 1].skip
                 THEN [out |-> Append(F[i - 1].out, s[i]), skip |-> FALSE]
                 ELSE IF \E j \in 1..Len(F[i - 1].out) :
                            DupKey(F[i - 1].out[j]) = DupKey(s[i])
                      THEN [out |-> F[i - 1].out, skip |-> TRUE]
                      ELSE [out |-> Append(F[i - 1].out, s[i]), skip |-> FALSE]
    IN  F[Len(s)].out

(* df.drop_duplicates(subset=[...]): keep="first". *)
DropDuplicates(s) ==
    LET F[i \in 0..Len(s)] ==
            IF i = 0 THEN <<>>
            ELSE IF \E j \in 1..(i - 1) : DupKey(s[j]) = DupKey(s[i])
                 THEN F[i - 1]
                 ELSE Append(F[i - 1], s[i])
    IN  F[Len(s)]

(* for col in ["txn_type", "description", "city"]: df[col].str.strip() *)
StripColumns(s) ==
    AsSeq([i \in 1..Len(s) |-> [s[i] EXCEPT !.txn_type = Strip(@),
                                   !.description = Strip(@),
                                   !.city = Strip(@)]])

----------------------------------------------------------------------------
(* Feature engineering *)

HighThreshold == 200000

(* A night that starts at 22:00. *)
IsNightInclusive(h) == h < 6 \/ h >= 22

(* (df["hour"] < 6) | (df["hour"] > 22) *)
IsNight(h) == h < 6 \/ h > 22

IsHigh(a) == a > HighThreshold

RowTimeKey(r) == TimeKey(r.txn_time)

(* The derived columns of one row. *)
Derive(r) ==
    [account_id  |-> r.account_id,
     txn_time    |-> r.txn_time,
     amount      |-> r.amount,
     txn_type    |-> r.txn_type,
     description |-> r.description,
     city        |-> r.city,
     hour        |-> Hour(r.txn_time),
     month       |-> MonthStr(r.txn_time),
     weekday     |-> Weekday(r.txn_time),
     is_weekend  |-> Weekday(r.txn_time) >= 5,
     is_night    |-> IsNight(Hour(r.txn_time)),
     is_high     |-> IsHigh(r.amount),
     region      |-> Region(r.city)]

----------------------------------------------------------------------------
(* Aggregation *)

(* df.groupby("city", as_index=False).agg(...): one row per city that is   *)
(* not missing, in increasing key order.                                    *)
CityGroups(t) ==
    LET keys == SortedTexts({t[i].city : i \in 1..Len(t)} \ {NA})
        rows(c) == SelectSeq(t, LAMBDA r : r.city = c)
    IN  AsSeq([k \in 1..Len(keys) |->
            [city         |-> keys[k],
             total_amount |-> SumAmount(rows(keys[k])),
             txns         |-> Len(rows(keys[k])),
             high_txns    |-> CountHigh(rows(keys[k])),
             night_txns   |-> CountNight(rows(keys[k]))]])

NegTotalAmount(g) == -g.total_amount

(* The summary sorted with ascending left at its default. *)
CityPerfAscending(t) ==
    LET g == CityGroups(t)
    IN  SortOutcomes(g, AsSeq([i \in 1..Len(g) |-> g[i].total_amount]))

(* ....sort_values("total_amount", ascending=False): the outcomes. *)
CityPerfOutcomes(t) ==
    LET g == CityGroups(t)
    IN  SortOutcomes(g, AsSeq([i \in 1..Len(g) |-> NegTotalAmount(g[i])]))

(* The number of the calendar month of a timestamp. *)
MonthOrdinal(t) == t[1] * 12 + t[2] - 1

(* df.resample("ME").agg(...): a row for every calendar month from the     *)
(* first to the last of the table, the months without rows included.        *)
Monthly(t) ==
    LET ords == {MonthOrdinal(t[i].txn_time) : i \in 1..Len(t)}
        lo   == CHOOSE o \in ords : \A p \in ords : o <= p
        hi   == CHOOSE o \in ords : \A p \in ords : o >= p
        rows(o) == SelectSeq(t, LAMBDA r : MonthOrdinal(r.txn_time) = o)
    IN  AsSeq([k \in 1..(hi - lo + 1) |->
            LET o == lo + k - 1
                y == o \div 12
                m == (o % 12) + 1
            IN  [txn_time     |-> <<y, m, DaysInMonth(y, m), 0>>,
                 total_amount |-> SumAmount(rows(o)),
                 txns         |-> Len(rows(o)),
                 high_txns    |-> CountHigh(rows(o)),
                 night_txns   |-> CountNight(rows(o)),
                 month        |-> MonthStr(<<y, m, DaysInMonth(y, m), 0>>)]])

(* pd.pivot_table(..., index="month", columns="city", aggfunc="sum",       *)
(* fill_value=0)                                                            *)
PivotMonthCity(t) ==
    [m \in {t[i].month : i \in {j \in 1..Len(t) : t[j].city # NA}} |->
        [c \in {t[i].city : i \in 1..Len(t)} \ {NA} |->
            SumAmount(SelectSeq(t, LAMBDA r : r.month = m /\ r.city = c))]]

(* pd.pivot_table(..., index="month", columns="txn_type",                  *)
(* aggfunc=["sum","count"], fill_value=0)                                   *)
PivotMonthType(t) ==
    [m \in {t[i].month : i \in {j \in 1..Len(t) : t[j].txn_type # NA}} |->
        [y \in {t[i].txn_type : i \in 1..Len(t)} \ {NA} |->
            LET rows == SelectSeq(t, LAMBDA r : r.month = m /\ r.txn_type = y)
            IN  [sum |-> SumAmount(rows), count |-> Len(rows)]]]

(* The overall KPI row, the percentages kept as their counts. *)
Overall(t) ==
    [total_txns   |-> Len(t),
     total_amount |-> SumAmount(t),
     night_txns   |-> CountNight(t),
     high_txns    |-> CountHigh(t)]

----------------------------------------------------------------------------
(* RFM *)

Quantiles == 4

(* Series.rank(method="first"): ties ranked in order of appearance. *)
RankFirst(v) ==
    AsSeq([i \in 1..Len(v) |->
        1 + Cardinality({j \in 1..Len(v) : v[j] < v[i]})
          + Cardinality({j \in 1..(i - 1) : v[j] = v[i]})])

(* v in nondecreasing order. *)
SortedValues(v) ==
    LET r == RankFirst(v)
    IN  AsSeq([k \in 1..Len(v) |-> v[CHOOSE i \in 1..Len(v) : r[i] = k]])

(* Series.quantile([0, .25, .5, .75, 1]) with linear interpolation: the    *)
(* edges e[1] .. e[Quantiles + 1], each multiplied by Quantiles to stay in  *)
(* the integers.                                                            *)
QuantileEdges(v) ==
    LET sv == SortedValues(v)
    IN  AsSeq([k \in 1..(Quantiles + 1) |->
            LET pos == (k - 1) * (Len(v) - 1)
                lo  == pos \div Quantiles
                fr  == pos % Quantiles
            IN  IF fr = 0 THEN Quantiles * sv[lo + 1]
                ELSE Quantiles * sv[lo + 1] + fr * (sv[lo + 2] - sv[lo + 1])])

(* The bins without include_lowest: the least value falls in no bin. *)
BinLabelOpenLowest(e, xv) ==
    Cardinality({k \in 1..Len(e) : e[k] < Quantiles * xv})

(* The bin of xv among the edges e: right-closed intervals, the lowest edge *)
(* included (searchsorted side="left", include_lowest=True).                *)
BinLabel(e, xv) ==
    IF Quantiles * xv = e[1] THEN 1
    ELSE Cardinality({k \in 1..Len(e) : e[k] < Quantiles * xv})

(* pd.qcut(v, 4, labels=[1,2,3,4]): duplicate bin edges raise ValueError. *)
Qcut(v) ==
    IF Len(v) = 0 THEN [ok |-> FALSE, labels |-> <<>>]
    ELSE LET e == QuantileEdges(v)
         IN  IF \E j, k \in 1..Len(e) : j < k /\ e[j] = e[k]
             THEN [ok |-> FALSE, labels |-> <<>>]
             ELSE [ok |-> TRUE,
                   labels |-> AsSeq([i \in 1..Len(v) |-> BinLabel(e, v[i])])]

(* The latest timestamp among the rows of t. *)
MaxTime(t) ==
    LET ks == AsSeq([i \in 1..Len(t) |-> RowTimeKey(t[i])])
        m  == CHOOSE i \in 1..Len(t) : \A j \in 1..Len(t) : ks[j] <= ks[i]
    IN  t[m].txn_time

(* df.groupby("account_id").agg(last_txn, frequency, monetary) and          *)
(* recency_days, one row per account in increasing account_id.              *)
RfmBase(t) ==
    LET ids == SortedInts({t[i].account_id : i \in 1..Len(t)})
        rows(a) == SelectSeq(t, LAMBDA r : r.account_id = a)
        max_date == Normalize(MaxTime(t))
    IN  AsSeq([k \in 1..Len(ids) |->
            [account_id   |-> ids[k],
             last_txn     |-> MaxTime(rows(ids[k])),
             frequency    |-> Len(rows(ids[k])),
             monetary     |-> SumAmount(rows(ids[k])),
             recency_days |-> DayNumber(max_date)
                              - DayNumber(Normalize(MaxTime(rows(ids[k]))))]])

(* The recency cut without the negation. *)
RecencyKeyPlain(r) == r.recency_days

(* The series R_quart is cut on: -rfm["recency_days"]. *)
RecencyKey(r) == -r.recency_days

R_quart(b) == Qcut(AsSeq([i \in 1..Len(b) |-> RecencyKey(b[i])]))

F_quart(b) == Qcut(RankFirst(AsSeq([i \in 1..Len(b) |-> b[i].frequency])))

M_quart(b) == Qcut(RankFirst(AsSeq([i \in 1..Len(b) |-> b[i].monetary])))

(* The RFM table with its quartiles and score. *)
RfmTable(b) ==
    LET R == R_quart(b).labels
        F == F_quart(b).labels
        M == M_quart(b).labels
    IN  AsSeq([i \in 1..Len(b) |->
            [account_id   |-> b[i].account_id,
             last_txn     |-> b[i].last_txn,
             frequency    |-> b[i].frequency,
             monetary     |-> b[i].monetary,
             recency_days |-> b[i].recency_days,
             R_quart      |-> R[i],
             F_quart      |-> F[i],
             M_quart      |-> M[i],
             RFM_score    |-> R[i] + F[i] + M[i]]])

----------------------------------------------------------------------------
(* Cohorts *)

(* The greatest month text of the account in place of the least. *)
FirstMonthLatest(t, a) ==
    CHOOSE m \in {t[i].month : i \in {j \in 1..Len(t) : t[j].account_id = a}} :
        \A i \in 1..Len(t) :
            t[i].account_id = a => (t[i].month = m \/ StrLess(t[i].month, m))

(* x.groupby("account_id")["cohort_month"].min(): the least month text. *)
FirstMonth(t, a) ==
    CHOOSE m \in {t[i].month : i \in {j \in 1..Len(t) : t[j].account_id = a}} :
        \A i \in 1..Len(t) :
            t[i].account_id = a => (t[i].month = m \/ StrLess(m, t[i].month))

(* (year difference)*12 + (month difference) of two month texts. *)
CohortIndex(cm, fm) ==
    (PeriodYear(cm) - PeriodYear(fm)) * 12 + (PeriodMonth(cm) - PeriodMonth(fm))

(* The cohort working table, a row per row of df, in its order. *)
CohortRows(t) ==
    AsSeq([i \in 1..Len(t) |->
        [txn_time     |-> t[i].txn_time,
         account_id   |-> t[i].account_id,
         cohort_month |-> t[i].month,
         first_month  |-> FirstMonth(t, t[i].account_id),
         cohort_index |-> CohortIndex(t[i].month,
                                      FirstMonth(t, t[i].account_id))]])

(* The cohort's size counted in rows, not in distinct accounts. *)
CohortBaseRows(c, fm) ==
    Cardinality({j \in 1..Len(c) : c[j].first_month = fm})

(* x.groupby("first_month")["account_id"].nunique() *)
CohortBase(c, fm) ==
    Cardinality({c[i].account_id :
                    i \in {j \in 1..Len(c) : c[j].first_month = fm}})

(* x.groupby(["first_month","cohort_index"])["account_id"].nunique(),      *)
(* unstacked with fill_value=0.                                             *)
CohortCount(c, fm, k) ==
    Cardinality({c[i].account_id :
                    i \in {j \in 1..Len(c) : /\ c[j].first_month = fm
                                             /\ c[j].cohort_index = k}})

(* round(n / d, 3), in thousandths. *)
Round3(n, d) == (2000 * n + d) \div (2 * d)

(* (cohort_counts.T / cohort_base).T.round(3) *)
CohortRetention(c) ==
    [fm \in {c[i].first_month : i \in 1..Len(c)} |->
        [k \in {c[i].cohort_index : i \in 1..Len(c)} |->
            Round3(CohortCount(c, fm, k), CohortBase(c, fm))]]

----------------------------------------------------------------------------
(* The script *)

ReportFiles ==
    {"neopay_pandas_report.xlsx", "monthly_metrics.csv",
     "city_performance.csv", "rfm_scores.csv", "cohort_retention.csv"}

(* The existence check placed after the creation of the output directory. *)
CheckCsvAfterMkdir ==
    /\ pc = "check"
    /\ outDirCreated' = TRUE
    /\ IF csvExists
       THEN pc' = "read" /\ error' = error
       ELSE pc' = "aborted" /\ error' = "FileNotFoundError"
    /\ UNCHANGED <<csvExists, csv, df, overall, monthly, city_perf, pivots,
                   rfm, x, cohort_retention, outputs>>

(* if not CSV_PATH.exists(): raise FileNotFoundError(...) *)
CheckCsv ==
    /\ pc = "check"
    /\ IF csvExists
       THEN pc' = "mkdir" /\ error' = error
       ELSE pc' = "aborted" /\ error' = "FileNotFoundError"
    /\ UNCHANGED <<csvExists, csv, outDirCreated, df, overall, monthly,
                   city_perf, pivots, rfm, x, cohort_retention, outputs>>

(* OUT_DIR.mkdir(parents=True, exist_ok=True) *)
MakeOutDir ==
    /\ pc = "mkdir"
    /\ outDirCreated' = TRUE
    /\ pc' = "read"
    /\ UNCHANGED <<csvExists, csv, df, overall, monthly, city_perf, pivots,
                   rfm, x, cohort_retention, outputs, error>>

(* df = pd.read_csv(...) *)
ReadCsv ==
    /\ pc = "read"
    /\ df' = csv
    /\ pc' = "dedup"
    /\ UNCHANGED <<csvExists, csv, outDirCreated, overall, monthly,
                   city_perf, pivots, rfm, x, cohort_retention, outputs,
                   error>>

(* df = df.drop_duplicates(subset=[...]) *)
RemoveDuplicates ==
    /\ pc = "dedup"
    /\ df' = DropDuplicates(df)
    /\ pc' = "strip"
    /\ UNCHANGED <<csvExists, csv, outDirCreated, overall, monthly,
                   city_perf, pivots, rfm, x, cohort_retention, outputs,
                   error>>

(* Clean string columns *)
CleanStrings ==
    /\ pc = "strip"
    /\ df' = StripColumns(df)
    /\ pc' = "features"
    /\ UNCHANGED <<csvExists, csv, outDirCreated, overall, monthly,
                   city_perf, pivots, rfm, x, cohort_retention, outputs,
                   error>>

(* df.sort_values("txn_time").set_index("txn_time") and the derived columns *)
FeatureEngineering ==
    /\ pc = "features"
    /\ \E sorted \in SortOutcomes(df, AsSeq([i \in 1..Len(df) |->
                                                 RowTimeKey(df[i])])) :
           df' = AsSeq([i \in 1..Len(sorted) |-> Derive(sorted[i])])
    /\ pc' = "aggregate"
    /\ UNCHANGED <<csvExists, csv, outDirCreated, overall, monthly,
                   city_perf, pivots, rfm, x, cohort_retention, outputs,
                   error>>

(* Core KPIs & Aggregations *)
Aggregate ==
    /\ pc = "aggregate"
    /\ overall' = Overall(df)
    /\ monthly' = Monthly(df)
    /\ city_perf' \in CityPerfOutcomes(df)
    /\ pivots' = [month_city |-> PivotMonthCity(df),
                  month_type |-> PivotMonthType(df)]
    /\ pc' = "rfm"
    /\ UNCHANGED <<csvExists, csv, outDirCreated, df, rfm, x,
                   cohort_retention, outputs, error>>

(* RFM Analysis: a qcut that raises ends the run. *)
RfmAnalysis ==
    /\ pc = "rfm"
    /\ LET b == RfmBase(df)
       IN  IF R_quart(b).ok /\ F_quart(b).ok /\ M_quart(b).ok
           THEN rfm' = RfmTable(b) /\ pc' = "cohort" /\ error' = error
           ELSE rfm' = rfm /\ pc' = "failed" /\ error' = "ValueError"
    /\ UNCHANGED <<csvExists, csv, outDirCreated, df, overall, monthly,
                   city_perf, pivots, x, cohort_retention, outputs>>

(* Cohort Analysis *)
CohortAnalysis ==
    /\ pc = "cohort"
    /\ x' = CohortRows(df)
    /\ cohort_retention' = CohortRetention(x')
    /\ pc' = "export"
    /\ UNCHANGED <<csvExists, csv, outDirCreated, df, overall, monthly,
                   city_perf, pivots, rfm, outputs, error>>

(* Export Results: the workbook and the four CSV files. *)
Export ==
    /\ pc = "export"
    /\ outputs' = outputs \cup ReportFiles
    /\ pc' = "done"
    /\ UNCHANGED <<csvExists, csv, outDirCreated, df, overall, monthly,
                   city_perf, pivots, rfm, x, cohort_retention, error>>

Next ==
    \/ CheckCsv
    \/ MakeOutDir
    \/ ReadCsv
    \/ RemoveDuplicates
    \/ CleanStrings
    \/ FeatureEngineering
    \/ Aggregate
    \/ RfmAnalysis
    \/ CohortAnalysis
    \/ Export

----------------------------------------------------------------------------
(* Inputs *)

UPI == <<"U", "P", "I">>

Desc == <<"x">>

Nowhereville ==
    <<"N", "o", "w", "h", "e", "r", "e", "v", "i", "l", "l", "e">>

Padded(s) == <<" ">> \o s \o <<" ">>

RowsOf(A, T, M, C) ==
    [account_id : A, txn_time : T, amount : M, txn_type : {UPI},
     description : {Desc}, city : C]

(* The files of 1..MaxRows rows drawn from R. *)
Files(R) == UNION {[1..n -> R] : n \in 1..MaxRows}

(* The state before the first statement, the input file absent or holding *)
(* one of the files F.                                                     *)
InitWith(F) ==
    /\ pc = "check"
    /\ csvExists \in BOOLEAN
    /\ csv \in (IF csvExists THEN F ELSE {<<>>})
    /\ outDirCreated = FALSE
    /\ df = <<>>
    /\ overall = <<>>
    /\ monthly = <<>>
    /\ city_perf = <<>>
    /\ pivots = <<>>
    /\ rfm = <<>>
    /\ x = <<>>
    /\ cohort_retention = <<>>
    /\ outputs = {}
    /\ error = "none"

(* The payments of the first specification: dates across a year end. *)
Payments ==
    { <<<<2023, 12, 20, 5>>, 100>>, <<<<2024, 1, 5, 22>>, 100>>,
      <<<<2024, 2, 10, 23>>, 300>> }

(* Accounts, dates and amounts vary; the text is fixed. *)
Init ==
    InitWith(Files(UNION {RowsOf({1, 2, 3}, {p[1]}, {p[2]}, {Mumbai}) :
                            p \in Payments}))

Spec == Init /\ [][Next]_vars

(* The city text varies: plain, padded, unmapped. *)
InitClean ==
    InitWith(Files(RowsOf({1}, {<<2024, 1, 5, 5>>, <<2024, 1, 6, 23>>}, {100},
                          {Mumbai, Padded(Mumbai), Nowhereville})
                   \cup RowsOf({2}, {<<2024, 1, 6, 23>>}, {100},
                               {Mumbai, Padded(Mumbai), Nowhereville})))

SpecClean == InitClean /\ [][Next]_vars

Cities ==
    {Mumbai, Pune, Delhi, Bengaluru, Hyderabad, Chennai, Kolkata,
     Padded(Delhi), <<"m", "u", "m", "b", "a", "i">>, Nowhereville, <<" ">>,
     NA}

(* Two rows: every hour of the day and every city text on the first. *)
InitFeature ==
    InitWith({<<r1, r2>> :
                r1 \in RowsOf({1}, {<<2024, 1, 5, h>> : h \in 0..23},
                              {100}, Cities),
                r2 \in RowsOf({2}, {<<2024, 1, 6, 6>>, <<2024, 1, 7, 22>>},
                              {200000, 250000}, {Pune, Padded(Kolkata)})})

SpecFeature == InitFeature /\ [][Next]_vars

----------------------------------------------------------------------------
(* Properties *)

AfterFeatures ==
    pc \in {"aggregate", "rfm", "cohort", "export", "done", "failed"}

AfterAggregate == pc \in {"rfm", "cohort", "export", "done", "failed"}

AfterRfm == pc \in {"cohort", "export", "done"}

AfterCohort == pc \in {"export", "done"}

(* C1: in the RFM table every quartile label is one of 1..4, RFM_score is   *)
(* the sum of the account's three labels, and so lies in 3..12.             *)
RfmScoreInRange ==
    AfterRfm =>
        \A i \in 1..Len(rfm) :
            /\ rfm[i].R_quart \in 1..4
            /\ rfm[i].F_quart \in 1..4
            /\ rfm[i].M_quart \in 1..4
            /\ rfm[i].RFM_score
                 = rfm[i].R_quart + rfm[i].F_quart + rfm[i].M_quart
            /\ rfm[i].RFM_score \in 3..12

RfmScoreExtremes ==
    /\ pc = "done"
    /\ Len(rfm) = 3
    /\ \E i, j \in 1..Len(rfm) : rfm[i].RFM_score = 3 /\ rfm[j].RFM_score = 12

(* C2: in the retention matrix the cell of every cohort at cohort index 0   *)
(* is 1.0: the accounts of the cohort seen at offset 0 are all its accounts.*)
RetentionAtZeroIsOne ==
    AfterCohort =>
        \A fm \in DOMAIN cohort_retention :
            /\ 0 \in DOMAIN cohort_retention[fm]
            /\ cohort_retention[fm][0] = 1000
            /\ {x[i].account_id :
                    i \in {j \in 1..Len(x) : /\ x[j].first_month = fm
                                             /\ x[j].cohort_index = 0}}
               = {x[i].account_id :
                    i \in {j \in 1..Len(x) : x[j].first_month = fm}}

RetentionHalfKept ==
    /\ pc = "done"
    /\ \E fm \in DOMAIN cohort_retention :
           /\ cohort_retention[fm][0] = 1000
           /\ \E k \in DOMAIN cohort_retention[fm] :
                  k # 0 /\ cohort_retention[fm][k] = 500

(* The earliest timestamp of account a in the working table. *)
EarliestOf(a) ==
    CHOOSE t \in {df[i].txn_time :
                     i \in {j \in 1..Len(df) : df[j].account_id = a}} :
        \A i \in 1..Len(df) :
            df[i].account_id = a => TimeKey(t) <= TimeKey(df[i].txn_time)

(* C3: on every row the cohort month is the calendar month of the account's *)
(* earliest transaction, and the cohort index is (year difference)*12 +     *)
(* (month difference) from it to the row's month, never negative.           *)
CohortIndexCorrect ==
    AfterCohort =>
        \A i \in 1..Len(x) :
            LET e == EarliestOf(x[i].account_id)
            IN  /\ x[i].first_month = MonthStr(e)
                /\ x[i].cohort_index
                     = (x[i].txn_time[1] - e[1]) * 12
                       + (x[i].txn_time[2] - e[2])
                /\ x[i].cohort_index >= 0

CohortExampleRow ==
    /\ pc = "done"
    /\ \E i, j \in 1..Len(x) :
           /\ x[i].account_id = 1
           /\ x[i].txn_time = <<2024, 2, 10, 23>>
           /\ x[i].first_month = <<"2", "0", "2", "4", "-", "0", "1">>
           /\ x[i].cohort_index = 1
           /\ x[j].account_id = 1
           /\ x[j].txn_time = <<2024, 1, 5, 22>>
           /\ x[j].cohort_index = 0

(* c is raw without its leading and trailing whitespace. *)
IsTrimOf(c, raw) ==
    IF raw = NA THEN c = NA
    ELSE /\ c # NA
         /\ \E lo \in 1..(Len(raw) + 1) :
                /\ lo + Len(c) - 1 <= Len(raw)
                /\ \A k \in 1..Len(c) : c[k] = raw[lo + k - 1]
                /\ \A k \in 1..Len(raw) :
                       (k < lo \/ k > lo + Len(c) - 1) => raw[k] \in Whitespace
         /\ Len(c) > 0
              => (c[1] \notin Whitespace /\ c[Len(c)] \notin Whitespace)

(* C4: every row's region is the fixed mapping of its trimmed city, and any *)
(* other city, a missing one included, gives "Unknown"; never null.         *)
RegionOfTrimmedCity ==
    AfterFeatures =>
        \A i \in 1..Len(df) :
            /\ \E j \in 1..Len(csv) :
                   /\ csv[j].account_id = df[i].account_id
                   /\ csv[j].txn_time = df[i].txn_time
                   /\ IsTrimOf(df[i].city, csv[j].city)
            /\ df[i].city \in {Mumbai, Pune} => df[i].region = "West"
            /\ df[i].city = Delhi => df[i].region = "North"
            /\ df[i].city \in {Bengaluru, Hyderabad, Chennai}
                 => df[i].region = "South"
            /\ df[i].city = Kolkata => df[i].region = "East"
            /\ df[i].city \notin {Mumbai, Pune, Delhi, Bengaluru, Hyderabad,
                                  Chennai, Kolkata}
                 => df[i].region = "Unknown"
            /\ df[i].region # "NaN"

RegionPaddedAndMissing ==
    /\ pc = "done"
    /\ \E i, j \in 1..Len(df), k \in 1..Len(csv) :
           /\ df[i].city = NA /\ df[i].region = "Unknown"
           /\ csv[k].city = Padded(Kolkata)
           /\ df[j].city = Kolkata /\ df[j].region = "East"

(* C5: on every row is_night is true exactly when the hour of the day is    *)
(* below 6 or above 22: hours 0..5 and 23, and no hour of 6..22.            *)
NightIffHour ==
    AfterFeatures =>
        \A i \in 1..Len(df) :
            /\ df[i].hour = df[i].txn_time[4]
            /\ df[i].is_night <=> (df[i].hour < 6 \/ df[i].hour > 22)
            /\ df[i].is_night <=> df[i].txn_time[4] \in (0..5) \cup {23}

NightBoundaryRows ==
    /\ pc = "done"
    /\ \E i, j \in 1..Len(df) :
           /\ df[i].hour = 22 /\ ~df[i].is_night
           /\ df[j].hour = 23 /\ df[j].is_night

(* C6: deduplication is idempotent: applied again to its own output it      *)
(* removes no row and keeps the row count and the row order.                *)
DedupIdempotent ==
    pc = "strip" =>
        /\ DropDuplicates(df) = df
        /\ Len(DropDuplicates(df)) = Len(df)

DedupRemovedRows ==
    /\ pc = "strip"
    /\ Len(df) = 1
    /\ Len(csv) = 3

(* C7: with the input file absent the run aborts with FileNotFoundError as  *)
(* its first effect: the output directory is not created, no data is loaded *)
(* and no output file is written.                                           *)
MissingCsvAbortsFirst ==
    ~csvExists =>
        /\ pc \in {"check", "aborted"}
        /\ pc = "aborted" => error = "FileNotFoundError"
        /\ ~outDirCreated
        /\ df = <<>>
        /\ outputs = {}

MissingCsvAborted ==
    /\ ~csvExists
    /\ pc = "aborted"
    /\ error = "FileNotFoundError"

(* The place of the city of g in the group-by order. *)
GroupPlace(g) ==
    CHOOSE k \in 1..Len(CityGroups(df)) : CityGroups(df)[k].city = g.city

(* C8: the city summary is in descending order of total_amount, and cities  *)
(* of equal total_amount keep their group-by order.                         *)
CityPerfSortedStable ==
    AfterAggregate =>
        \A i, j \in 1..Len(city_perf) :
            i < j =>
                \/ city_perf[i].total_amount > city_perf[j].total_amount
                \/ /\ city_perf[i].total_amount = city_perf[j].total_amount
                   /\ GroupPlace(city_perf[i]) < GroupPlace(city_perf[j])

(* C8, amended: the city summary holds every city group once, in descending *)
(* order of total_amount; the order among equal totals is not fixed.        *)
CityPerfSortedDescending ==
    AfterAggregate =>
        LET g == CityGroups(df)
        IN  /\ Len(city_perf) = Len(g)
            /\ {city_perf[i] : i \in 1..Len(city_perf)}
                 = {g[i] : i \in 1..Len(g)}
            /\ \A i, j \in 1..Len(city_perf) :
                   i < j =>
                       city_perf[i].total_amount >= city_perf[j].total_amount

CityPerfTwoTotals ==
    /\ pc = "done"
    /\ Len(city_perf) = 2
    /\ city_perf[1].total_amount > city_perf[2].total_amount

(* C9: the quartile labels are monotone: fewer recency days never give a    *)
(* lower R_quart, and a smaller frequency or monetary value, or an equal    *)
(* one earlier in the account table, never gives a higher F_quart, M_quart. *)
QuartilesMonotone ==
    AfterRfm =>
        \A i, j \in 1..Len(rfm) :
            /\ rfm[i].recency_days < rfm[j].recency_days
                 => rfm[i].R_quart >= rfm[j].R_quart
            /\ (rfm[i].frequency < rfm[j].frequency
                  \/ (rfm[i].frequency = rfm[j].frequency /\ i < j))
                 => rfm[i].F_quart <= rfm[j].F_quart
            /\ (rfm[i].monetary < rfm[j].monetary
                  \/ (rfm[i].monetary = rfm[j].monetary /\ i < j))
                 => rfm[i].M_quart <= rfm[j].M_quart

QuartilesWithTies ==
    /\ pc = "done"
    /\ \E i, j \in 1..Len(rfm) :
           /\ i < j
           /\ rfm[i].frequency = rfm[j].frequency
           /\ rfm[i].F_quart < rfm[j].F_quart
           /\ rfm[i].monetary > rfm[j].monetary
           /\ rfm[i].M_quart > rfm[j].M_quart
           /\ rfm[i].recency_days < rfm[j].recency_days
           /\ rfm[i].R_quart > rfm[j].R_quart

(* C10: after cleaning no two rows of the working table agree on all of     *)
(* account_id, txn_time, amount, txn_type, description and city.            *)
NoDuplicatesAfterCleaning ==
    pc = "features" =>
        \A i, j \in 1..Len(df) : i < j => DupKey(df[i]) # DupKey(df[j])

====
